---- MODULE Spec2Model ----
(***************************************************************************)
(* Listing-text normalization (src/app/normalize.py, normalize_listing).   *)
(*                                                                         *)
(* A Python str is a sequence of one-character strings.  An ASCII          *)
(* printable character is itself ("a", " ", "\""); any other code point is *)
(* written "U+XXXX" ("U+00D7" is the multiplication sign).  Python's None  *)
(* is the one-element sequence None, whose element is no character.        *)
(*                                                                         *)
(* The regular expressions of the source are translated to matchers: a     *)
(* matcher M(s, i) tries the pattern at position i of s the way the        *)
(* backtracking engine does and answers the position after the match, or 0 *)
(* when the pattern does not match at i.  Every pattern of the source      *)
(* matches at least one character.                                         *)
(***************************************************************************)
EXTENDS Integers, Naturals, Sequences, FiniteSets, TLC

(***************************************************************************)
(* Characters.                                                             *)
(***************************************************************************)
None == <<"None">>

TAB == "U+0009"
LF == "U+000A"
FF == "U+000C"
NUL == "U+0000"
NBSP == "U+00A0"
TIMES == "U+00D7"
BULLET == "U+2022"
RDQUO == "U+201D"

LowerSeq == <<"a", "b", "c", "d", "e", "f", "g", "h", "i", "j", "k", "l", "m", "n", "o", "p", "q", "r",
        "s", "t", "u", "v", "w", "x", "y", "z">>
UpperSeq == <<"A", "B", "C", "D", "E", "F", "G", "H", "I", "J", "K", "L", "M", "N", "O", "P", "Q", "R",
        "S", "T", "U", "V", "W", "X", "Y", "Z">>
Range(f) == {f[x] : x \in DOMAIN f}
LowerSet == Range(LowerSeq)
UpperSet == Range(UpperSeq)
Digit == Range(<<"0", "1", "2", "3", "4", "5", "6", "7", "8", "9">>)

\* str.lower / str.upper of one character (ASCII letters; the other
\* characters of the model have no case).
Lower(c) == IF c \in UpperSet THEN LowerSeq[CHOOSE k \in 1..26 : UpperSeq[k] = c] ELSE c
Upper(c) == IF c \in LowerSet THEN UpperSeq[CHOOSE k \in 1..26 : LowerSeq[k] = c] ELSE c

\* \w, \s and the control range of _RE_CONTROL, over the model's characters.
IsWord(c) == c \in LowerSet \cup UpperSet \cup Digit \cup {"_"}
Space == {" ", TAB, LF, FF, NBSP}
Control == {NUL, TAB, LF, FF}
IsSpace(c) == c \in Space

(***************************************************************************)
(* Sequence helpers.                                                       *)
(***************************************************************************)
\* ss[lo] \o ... \o ss[hi]
RECURSIVE Flatten(_, _, _)
Flatten(ss, lo, hi) ==
    IF lo > hi THEN <<>>
    ELSE IF lo = hi THEN ss[lo]
    ELSE LET mid == (lo + hi) \div 2
         IN  Flatten(ss, lo, mid) \o Flatten(ss, mid + 1, hi)

Concat(ss) == Flatten(ss, 1, Len(ss))

\* s[i:j] of Python with 1-based i and exclusive end e
Slice(s, i, e) == SubSeq(s, i, e - 1)

\* the first position >= i of s whose character is not in S (Len(s)+1 if none):
\* where a greedy [S]* that starts at i stops
RECURSIVE Skip(_, _, _)
Skip(s, i, S) == IF i <= Len(s) /\ s[i] \in S THEN Skip(s, i + 1, S) ELSE i

\* the first position >= i of s whose character is in S (Len(s)+1 if none):
\* where a greedy [^S]* that starts at i stops
RECURSIVE SkipTo(_, _, _)
SkipTo(s, i, S) == IF i <= Len(s) /\ s[i] \notin S THEN SkipTo(s, i + 1, S) ELSE i

\* the literal lit (lower case) at position i of s, ignoring case: the end, or 0
MatchLit(s, i, lit) ==
    IF i >= 1 /\ i + Len(lit) - 1 <= Len(s)
       /\ \A k \in 1..Len(lit) : Lower(s[i + k - 1]) = lit[k]
    THEN i + Len(lit) ELSE 0

\* \b at position i (between s[i-1] and s[i])
WordBoundary(s, i) ==
    LET before == i > 1 /\ i - 1 <= Len(s) /\ IsWord(s[i - 1])
        after == i >= 1 /\ i <= Len(s) /\ IsWord(s[i])
    IN  before # after

\* str.strip(): leading and trailing whitespace removed
Strip(s) ==
    LET keep == {i \in 1..Len(s) : ~IsSpace(s[i])}
    IN  IF keep = {} THEN <<>>
        ELSE SubSeq(s, CHOOSE i \in keep : \A j \in keep : i <= j,
                       CHOOSE i \in keep : \A j \in keep : i >= j)

\* str.rstrip(chars)
RStrip(s, S) ==
    LET keep == {i \in 1..Len(s) : s[i] \notin S}
    IN  IF keep = {} THEN <<>>
        ELSE SubSeq(s, 1, CHOOSE i \in keep : \A j \in keep : i >= j)

(***************************************************************************)
(* re.sub and re.search.                                                   *)
(***************************************************************************)
\* the leftmost position >= i where a match starts (E[j] is the end of the
\* match that starts at j, or 0), or 0
FirstMatch(E, i) ==
    IF \E j \in i..Len(E) : E[j] # 0
    THEN CHOOSE j \in i..Len(E) : E[j] # 0 /\ \A k \in i..(j - 1) : E[k] = 0
    ELSE 0

\* the starts of the non-overlapping matches found scanning from i, leftmost
\* first, at most count of them (count = 0: all of them)
RECURSIVE MatchStarts(_, _, _, _)
MatchStarts(E, i, count, found) ==
    LET m == FirstMatch(E, i)
    IN  IF m = 0 \/ (count # 0 /\ Len(found) >= count) THEN found
        ELSE MatchStarts(E, E[m], count, Append(found, m))

\* re.sub(pattern, repl, s, count): M is the pattern's matcher, R(s, i, e) the
\* replacement of the match s[i..e-1]
ReSub(s, M(_, _), R(_, _, _), count) ==
    IF s = <<>> THEN s
    ELSE LET n == Len(s)
             E == [j \in 1..n |-> M(s, j)]
             starts == MatchStarts(E, 1, count, <<>>)
             k == Len(starts)
             from(t) == IF t = 1 THEN 1 ELSE E[starts[t - 1]]
             pieces == [t \in 1..k |->
                           Slice(s, from(t), starts[t]) \o R(s, starts[t], E[starts[t]])]
         IN  IF k = 0 THEN s ELSE Concat(pieces) \o Slice(s, from(k + 1), n + 1)

\* re.search(pattern, s): the start of the leftmost match, or 0
ReSearch(s, M(_, _)) == IF s = <<>> THEN 0 ELSE FirstMatch([j \in 1..Len(s) |-> M(s, j)], 1)

\* replacements that do not depend on the match
ToSpace(s, i, e) == <<" ">>
ToCommaSpace(s, i, e) == <<",", " ">>
ToNothing(s, i, e) == <<>>

(***************************************************************************)
(* _strip_controls (normalize.py 47-54) and its tables (26-38).            *)
(***************************************************************************)
\* _RE_CONTROL = [\u0000-\u001F\u007F]
_RE_CONTROL(s, i) == IF s[i] \in Control THEN i + 1 ELSE 0

\* _RE_BAD_TOKS: str.maketrans table, one character to its replacement
_RE_BAD_TOKS(c) ==
    CASE c \in {"U+201C", "U+201D", "U+201E", "U+201F"} -> <<"\"">>
      [] c \in {"U+2019", "U+2018", "U+201A", "U+201B"} -> <<"'">>
      [] c = "U+00D7" -> <<"x">>
      [] c \in {"U+2013", "U+2014", "U+2012"} -> <<"-">>
      [] c \in {"U+2022", "U+2605", "U+2606", "U+3010", "U+3011"} -> <<" ">>
      [] c = "U+3001" -> <<",", " ">>
      [] OTHER -> <<c>>

\* str.translate
Translate(s) == Concat([i \in 1..Len(s) |-> _RE_BAD_TOKS(s[i])])

\* html.entities.html5 restricted to the names written with the letters a, m, p
\* (the only letters that follow "&" in the model's inputs)
Html5Keys == {<<"a", "m", "p">>, <<"a", "m", "p", ";">>, <<"a", "p", ";">>, <<"m", "a", "p", ";">>,
        <<"m", "p", ";">>, <<"p", "m", ";">>}
Html5(k) ==
    CASE k \in {<<"a", "m", "p">>, <<"a", "m", "p", ";">>} -> <<"&">>
      [] k = <<"a", "p", ";">> -> <<"U+2248">>
      [] k = <<"m", "a", "p", ";">> -> <<"U+21A6">>
      [] k = <<"m", "p", ";">> -> <<"U+2213">>
      [] k = <<"p", "m", ";">> -> <<"U+00B1">>

\* html.unescape's pattern &(#[0-9]+;?|#[xX][0-9a-fA-F]+;?|[^\t\n\f <&#;]{1,32};?)
\* for a named reference (the model's inputs hold no "#")
NameStop == {TAB, LF, FF, " ", "<", "&", "#", ";"}
CharRef(s, i) ==
    IF s[i] # "&" THEN 0
    ELSE LET stop == SkipTo(s, i + 1, NameStop)
             e == IF stop - (i + 1) > 32 THEN i + 33 ELSE stop
         IN  IF e = i + 1 THEN 0
             ELSE IF e <= Len(s) /\ s[e] = ";" THEN e + 1 ELSE e

\* html._replace_charref: the whole name if the table has it, else the longest
\* proper prefix of at least two characters the table has, else unchanged
ReplaceCharRef(s, i, e) ==
    LET name == Slice(s, i + 1, e)
        pre == {x \in 2..(Len(name) - 1) : SubSeq(name, 1, x) \in Html5Keys}
    IN  IF name \in Html5Keys THEN Html5(name)
        ELSE IF pre # {}
             THEN LET x == CHOOSE y \in pre : \A z \in pre : y >= z
                  IN  Html5(SubSeq(name, 1, x)) \o SubSeq(name, x + 1, Len(name))
             ELSE <<"&">> \o name

HtmlUnescape(s) == IF \E i \in 1..Len(s) : s[i] = "&" THEN ReSub(s, CharRef, ReplaceCharRef, 0) ELSE s

\* _RE_TRAIL_SEPS = ([,;/|\-])\s*([,;/|\-])+ , replaced by r"\1 "
Seps == {",", ";", "/", "|", "-"}
_RE_TRAIL_SEPS(s, i) ==
    IF s[i] \notin Seps THEN 0
    ELSE LET j == Skip(s, i + 1, Space)
             e == Skip(s, j, Seps)
         IN  IF e > j THEN e ELSE 0
FirstSep(s, i, e) == <<s[i], " ">>

\* _RE_MULTI_SPACE = [ \t ]{2,}
Blank == {" ", TAB, NBSP}
_RE_MULTI_SPACE(s, i) ==
    LET e == Skip(s, i, Blank) IN IF e >= i + 2 THEN e ELSE 0

\* _RE_WS = \s+
_RE_WS(s, i) == LET e == Skip(s, i, Space) IN IF e > i THEN e ELSE 0

_strip_controls(s0) ==
    LET s1 == ReSub(s0, _RE_CONTROL, ToSpace, 0)
        s2 == Translate(s1)
        s3 == HtmlUnescape(s2)
        s4 == ReSub(s3, _RE_TRAIL_SEPS, FirstSep, 0)
        s5 == ReSub(s4, _RE_MULTI_SPACE, ToSpace, 0)
        s6 == ReSub(s5, _RE_WS, ToSpace, 0)
    IN  Strip(s6)

(***************************************************************************)
(* _normalize_delims (normalize.py 56-59).                                 *)
(***************************************************************************)
\* \s*[|/]\s*
DelimPipeSlash(s, i) ==
    LET j == Skip(s, i, Space)
    IN  IF j <= Len(s) /\ s[j] \in {"|", "/"} THEN Skip(s, j + 1, Space) ELSE 0

\* \s*,\s*,+\s*
DelimCommas(s, i) ==
    LET j == Skip(s, i, Space)
    IN  IF j <= Len(s) /\ s[j] = ","
        THEN LET k == Skip(s, j + 1, Space)
                 m == Skip(s, k, {","})
             IN  IF m > k THEN Skip(s, m, Space) ELSE 0
        ELSE 0

_normalize_delims(s0) ==
    LET s1 == ReSub(s0, DelimPipeSlash, ToCommaSpace, 0)
    IN  ReSub(s1, DelimCommas, ToCommaSpace, 0)

(***************************************************************************)
(* _drop_boiler (normalize.py 61-64) over the patterns of _DROP (39-45),   *)
(* each applied with re.I, in the order of the list.                       *)
(***************************************************************************)
\* prefix.*?suffix: the shortest span from i, "." matching no line feed
Span(s, i, prefix, suffix) ==
    LET a == MatchLit(s, i, prefix)
    IN  IF a = 0 THEN 0
        ELSE LET stop == SkipTo(s, a, {LF})
                 E == [p \in 1..Len(s) |-> IF p >= a /\ p <= stop THEN MatchLit(s, p, suffix) ELSE 0]
                 p == FirstMatch(E, a)
             IN  IF p = 0 THEN 0 ELSE E[p]

DropCustomerService(s, i) == MatchLit(s, i, <<"c", "u", "s", "t", "o", "m", "e", "r", " ", "s", "e",
        "r", "v", "i", "c", "e">>)
\* 0\s*risk purchase
DropZeroRisk(s, i) ==
    IF s[i] = "0" THEN MatchLit(s, Skip(s, i + 1, Space), <<"r", "i", "s", "k", " ", "p", "u", "r", "c",
            "h", "a", "s", "e">>) ELSE 0
DropPerfectShopping(s, i) == MatchLit(s, i, <<"p", "e", "r", "f", "e", "c", "t", " ", "s", "h", "o",
        "p", "p", "i", "n", "g", " ", "e", "x", "p", "e", "r", "i", "e", "n", "c", "e">>)
\* contact us.*?purchase
DropContactUs(s, i) == Span(s, i, <<"c", "o", "n", "t", "a", "c", "t", " ", "u", "s">>, <<"p", "u", "r",
        "c", "h", "a", "s", "e">>)
\* we will do our best.*?satisfied
DropDoOurBest(s, i) == Span(s, i, <<"w", "e", " ", "w", "i", "l", "l", " ", "d", "o", " ", "o", "u",
        "r", " ", "b", "e", "s", "t">>, <<"s", "a", "t", "i", "s", "f", "i", "e", "d">>)

_drop_boiler(s0) ==
    LET s1 == ReSub(s0, DropCustomerService, ToSpace, 0)
        s2 == ReSub(s1, DropZeroRisk, ToSpace, 0)
        s3 == ReSub(s2, DropPerfectShopping, ToSpace, 0)
        s4 == ReSub(s3, DropContactUs, ToSpace, 0)
    IN  ReSub(s4, DropDoOurBest, ToSpace, 0)

(***************************************************************************)
(* _sentenceize (normalize.py 66-76).                                      *)
(***************************************************************************)
\* (?<=[.!?])\s+(?=[A-Z0-9])|(?<=\")\s+(?=[A-Z0-9])
SentenceBreak(s, i) ==
    IF i > 1 /\ s[i - 1] \in {".", "!", "?", "\""}
    THEN LET e == Skip(s, i, Space)
         IN  IF e > i /\ e <= Len(s) /\ s[e] \in UpperSet \cup Digit THEN e ELSE 0
    ELSE 0

\* re.split(pattern, s): the texts between the matches
ReSplit(s, M(_, _)) ==
    LET n == Len(s)
        E == [j \in 1..n |-> M(s, j)]
        starts == MatchStarts(E, 1, 0, <<>>)
        k == Len(starts)
        from(t) == IF t = 1 THEN 1 ELSE E[starts[t - 1]]
    IN  [t \in 1..(k + 1) |-> Slice(s, from(t), IF t = k + 1 THEN n + 1 ELSE starts[t])]

NonEmpty(p) == p # <<>>

\* lines 73-75: capitalise unless the part starts with [A-Z0-9"], then rstrip(",;")
SentencePart(p) ==
    LET q == IF p[1] \in UpperSet \cup Digit \cup {"\""} THEN p
             ELSE <<Upper(p[1])>> \o Tail(p)
    IN  RStrip(q, {",", ";"})

\* " ".join(out)
JoinSpace(out) ==
    Concat([t \in 1..Len(out) |-> IF t = 1 THEN out[t] ELSE <<" ">> \o out[t]])

_sentenceize(s) ==
    LET parts == ReSplit(Strip(s), SentenceBreak)
        stripped == [t \in 1..Len(parts) |-> Strip(parts[t])]
        kept == SelectSeq(stripped, NonEmpty)
    IN  JoinSpace([t \in 1..Len(kept) |-> SentencePart(kept[t])])

(***************************************************************************)
(* _normalize_dimensions (normalize.py 78-96) and its patterns (30-32).    *)
(***************************************************************************)
\* The patterns are sequences of greedy pieces none of which can give back
\* what the next piece needs, so each piece is an operator from the position
\* where it starts to the position where it ends; 0 is "no match" and every
\* piece passes it on.

\* (?:\.\d+)? at d
Fraction(s, d) ==
    IF d <= Len(s) /\ s[d] = "." /\ Skip(s, d + 1, Digit) > d + 1
    THEN Skip(s, d + 1, Digit) ELSE d
\* \d+(?:\.\d+)? at i
Number(s, i) ==
    IF i = 0 \/ Skip(s, i, Digit) = i THEN 0 ELSE Fraction(s, Skip(s, i, Digit))
\* \s* at i
Ws(s, i) == IF i = 0 THEN 0 ELSE Skip(s, i, Space)
\* ["”]? at i
OptQuote(s, i) ==
    IF i = 0 THEN 0 ELSE IF i <= Len(s) /\ s[i] \in {"\"", RDQUO} THEN i + 1 ELSE i
\* (?:lit)? at i, ignoring case
OptLit(s, i, lit) == IF i = 0 THEN 0 ELSE IF MatchLit(s, i, lit) # 0 THEN i + Len(lit) ELSE i
\* [x×] at i, ignoring case
Times(s, i) == IF i # 0 /\ i <= Len(s) /\ s[i] \in {"x", "X", TIMES} THEN i + 1 ELSE 0

\* _RE_DIM_INCH at i: the end of group w, the start and the end of group l,
\* and the end of the match
InchW(s, i) == Number(s, i)
InchL(s, i) ==
    Ws(s, Times(s, Ws(s, OptLit(s, Ws(s, OptQuote(s, Ws(s, InchW(s, i)))), <<"(", "w", ")">>))))
InchLEnd(s, i) == Number(s, InchL(s, i))
_RE_DIM_INCH(s, i) == OptLit(s, Ws(s, OptQuote(s, Ws(s, InchLEnd(s, i)))), <<"(", "l", ")">>)
\* f'{w}" × {l}"'
InchRewrite(s, i, e) ==
    Slice(s, i, InchW(s, i)) \o <<"\"", " ", TIMES, " ">>
    \o Slice(s, InchL(s, i), InchLEnd(s, i)) \o <<"\"">>

\* _RE_DIM_CM at i: the end of group w, the start and the end of group l,
\* and the end of the match
CmW(s, i) == Number(s, i)
CmL(s, i) == Ws(s, Times(s, Ws(s, MatchLit(s, Ws(s, CmW(s, i)), <<"c", "m">>))))
CmLEnd(s, i) == Number(s, CmL(s, i))
_RE_DIM_CM(s, i) == MatchLit(s, Ws(s, CmLEnd(s, i)), <<"c", "m">>)
\* f"{wcm} × {lcm} cm"
CmRewrite(s, i, e) ==
    Slice(s, i, CmW(s, i)) \o <<" ", TIMES, " ">>
    \o Slice(s, CmL(s, i), CmLEnd(s, i)) \o <<" ", "c", "m">>

\* _RE_THICK at i: the start and the end of group t, and the end of the match
ThickT(s, i) ==
    IF MatchLit(s, i, <<"t", "h", "i", "c", "k", "n", "e", "s", "s">>) = 0 THEN i
    ELSE Skip(s, MatchLit(s, i, <<"t", "h", "i", "c", "k", "n", "e", "s", "s">>), Space \cup {":"})
ThickTEnd(s, i) == Number(s, ThickT(s, i))
\* (?:inch|in|") at u
Unit(s, u) ==
    IF MatchLit(s, u, <<"i", "n", "c", "h">>) # 0 THEN u + 4
    ELSE IF MatchLit(s, u, <<"i", "n">>) # 0 THEN u + 2
    ELSE IF u # 0 /\ u <= Len(s) /\ s[u] = "\"" THEN u + 1 ELSE 0
_RE_THICK(s, i) == Unit(s, Ws(s, ThickTEnd(s, i)))
\* f'{t}" thickness'
ThickRewrite(s, i, e) == Slice(s, ThickT(s, i), ThickTEnd(s, i)) \o <<"\"", " ", "t", "h", "i", "c", "k", "n", "e", "s", "s">>

\* line 79
NoDims == <<>>

\* lines 83-84: the keys of the match that starts at m
InchDims(out, m) ==
    ("width_in" :> Slice(out, m, InchW(out, m)))
    @@ ("length_in" :> Slice(out, InchL(out, m), InchLEnd(out, m)))
\* lines 88-89
CmDims(out, m) ==
    ("width_cm" :> Slice(out, m, CmW(out, m)))
    @@ ("length_cm" :> Slice(out, CmL(out, m), CmLEnd(out, m)))
\* lines 93-94
ThickDims(out, m) == "thickness_in" :> Slice(out, ThickT(out, m), ThickTEnd(out, m))

\* lines 81-85: the inch scan of r = <<out, dims>>
ScanInch(r) ==
    IF ReSearch(r[1], _RE_DIM_INCH) = 0 THEN r
    ELSE <<ReSub(r[1], _RE_DIM_INCH, InchRewrite, 1),
           InchDims(r[1], ReSearch(r[1], _RE_DIM_INCH)) @@ r[2]>>

\* lines 86-90: the cm scan of r = <<out, dims>>
ScanCm(r) ==
    IF ReSearch(r[1], _RE_DIM_CM) = 0 THEN r
    ELSE <<ReSub(r[1], _RE_DIM_CM, CmRewrite, 1),
           CmDims(r[1], ReSearch(r[1], _RE_DIM_CM)) @@ r[2]>>

\* lines 91-95: the thickness scan of r = <<out, dims>>
ScanThick(r) ==
    IF ReSearch(r[1], _RE_THICK) = 0 THEN r
    ELSE <<ReSub(r[1], _RE_THICK, ThickRewrite, 1),
           ThickDims(r[1], ReSearch(r[1], _RE_THICK)) @@ r[2]>>

\* <<out, dims>>
_normalize_dimensions(text) == ScanThick(ScanCm(ScanInch(<<text, NoDims>>)))

(***************************************************************************)
(* _synthesize_bullets (normalize.py 98-123).                              *)
(***************************************************************************)
\* dims.get(k), as a truth value
Has(dims, k) == k \in DOMAIN dims /\ dims[k] # <<>>

\* \banti[- ]?slip|non[- ]?slip\b
KwAntiSlip(s, i) ==
    LET a == MatchLit(s, i, <<"a", "n", "t", "i">>)
        a2 == IF a # 0 /\ a <= Len(s) /\ s[a] \in {"-", " "} THEN a + 1 ELSE a
        n == MatchLit(s, i, <<"n", "o", "n">>)
        n2 == IF n # 0 /\ n <= Len(s) /\ s[n] \in {"-", " "} THEN n + 1 ELSE n
        e2 == IF n = 0 THEN 0 ELSE MatchLit(s, n2, <<"s", "l", "i", "p">>)
    IN  IF WordBoundary(s, i) /\ a # 0 /\ MatchLit(s, a2, <<"s", "l", "i", "p">>) # 0
        THEN MatchLit(s, a2, <<"s", "l", "i", "p">>)
        ELSE IF e2 # 0 /\ WordBoundary(s, e2) THEN e2 ELSE 0

\* \bword\b
WholeWord(s, i, lit) ==
    LET e == MatchLit(s, i, lit)
    IN  IF e # 0 /\ WordBoundary(s, i) /\ WordBoundary(s, e) THEN e ELSE 0

\* \bpolyester\b
KwPolyester(s, i) == WholeWord(s, i, <<"p", "o", "l", "y", "e", "s", "t", "e", "r">>)
\* \b(machine washable|washable)\b
KwWashable(s, i) ==
    IF WholeWord(s, i, <<"m", "a", "c", "h", "i", "n", "e", " ", "w", "a", "s", "h", "a", "b", "l",
            "e">>) # 0 THEN WholeWord(s, i, <<"m", "a", "c", "h", "i", "n", "e", " ", "w", "a", "s",
            "h", "a", "b", "l", "e">>)
    ELSE WholeWord(s, i, <<"w", "a", "s", "h", "a", "b", "l", "e">>)
\* \b(hardwood|wood floor)\b
KwHardwood(s, i) ==
    IF WholeWord(s, i, <<"h", "a", "r", "d", "w", "o", "o", "d">>) # 0 THEN WholeWord(s, i, <<"h", "a",
            "r", "d", "w", "o", "o", "d">>)
    ELSE WholeWord(s, i, <<"w", "o", "o", "d", " ", "f", "l", "o", "o", "r">>)

\* lines 100-108: the Size bullet, if any
SizeBullets(dims) ==
    IF Has(dims, "width_in") /\ Has(dims, "length_in")
    THEN LET inch == dims["width_in"] \o <<"\"", " ", TIMES, " ">> \o dims["length_in"] \o <<"\"">>
         IN  IF Has(dims, "width_cm") /\ Has(dims, "length_cm")
             THEN <<<<"S", "i", "z", "e", ":", " ">> \o inch \o <<" ", "(">> \o dims["width_cm"] \o <<" ", TIMES, " ">>
                    \o dims["length_cm"] \o <<" ", "c", "m", ")">>>>
             ELSE <<<<"S", "i", "z", "e", ":", " ">> \o inch>>
    ELSE IF Has(dims, "width_cm") /\ Has(dims, "length_cm")
         THEN <<<<"S", "i", "z", "e", ":", " ">> \o dims["width_cm"] \o <<" ", TIMES, " ">> \o
                 dims["length_cm"] \o <<" ", "c", "m">>>>
         ELSE <<>>

\* lines 109-110
ThicknessBullets(dims) ==
    IF Has(dims, "thickness_in")
    THEN <<<<"T", "h", "i", "c", "k", "n", "e", "s", "s", ":", " ">> \o dims["thickness_in"] \o <<"\"", " ", "(", "l", "o", "w", " ", "p", "r", "o", "f", "i", "l", "e", ")">>>>
    ELSE <<>>

BackingBullet == <<"B", "a", "c", "k", "i", "n", "g", ":", " ", "A", "n", "t", "i", "-", "s", "l", "i",
        "p", " ", "r", "u", "b", "b", "e", "r">>
SurfaceBullet == <<"S", "u", "r", "f", "a", "c", "e", ":", " ", "N", "o", "n", "-", "w", "o", "v", "e",
        "n", " ", "p", "o", "l", "y", "e", "s", "t", "e", "r">>
CareBullet == <<"C", "a", "r", "e", ":", " ", "M", "a", "c", "h", "i", "n", "e", " ", "w", "a", "s",
        "h", "a", "b", "l", "e">>
FloorBullet == <<"F", "l", "o", "o", "r", " ", "S", "a", "f", "e", "t", "y", ":", " ", "S", "u", "i",
        "t", "a", "b", "l", "e", " ", "f", "o", "r", " ", "h", "a", "r", "d", "w", "o", "o", "d">>

\* lines 111-118 with the Care check moved before the Surface check
KeywordBulletsCareFirst(clean_text) ==
    (IF ReSearch(clean_text, KwAntiSlip) # 0 THEN <<BackingBullet>> ELSE <<>>)
    \o (IF ReSearch(clean_text, KwWashable) # 0 THEN <<CareBullet>> ELSE <<>>)
    \o (IF ReSearch(clean_text, KwPolyester) # 0 THEN <<SurfaceBullet>> ELSE <<>>)
    \o (IF ReSearch(clean_text, KwHardwood) # 0 THEN <<FloorBullet>> ELSE <<>>)

\* lines 111-118
KeywordBullets(clean_text) ==
    (IF ReSearch(clean_text, KwAntiSlip) # 0 THEN <<BackingBullet>> ELSE <<>>)
    \o (IF ReSearch(clean_text, KwPolyester) # 0 THEN <<SurfaceBullet>> ELSE <<>>)
    \o (IF ReSearch(clean_text, KwWashable) # 0 THEN <<CareBullet>> ELSE <<>>)
    \o (IF ReSearch(clean_text, KwHardwood) # 0 THEN <<FloorBullet>> ELSE <<>>)

\* lines 119-123: the loop over bullets from index i
RECURSIVE Dedup(_, _, _, _)
Dedup(bullets, i, seen, dedup) ==
    IF i > Len(bullets) THEN dedup
    ELSE IF bullets[i] \notin seen
         THEN Dedup(bullets, i + 1, seen \cup {bullets[i]}, Append(dedup, bullets[i]))
         ELSE Dedup(bullets, i + 1, seen, dedup)

_synthesize_bullets(clean_text, dims) ==
    Dedup(SizeBullets(dims) \o ThicknessBullets(dims) \o KeywordBullets(clean_text), 1, {}, <<>>)

(***************************************************************************)
(* _clean_title (normalize.py 125-130) and the statements of the body.     *)
(***************************************************************************)
WordChars == LowerSet \cup UpperSet \cup Digit \cup {"_"}

\* (?:\s+\1\b)* from pos, greedy: where the repetitions of word end
RECURSIVE Repeats(_, _, _)
Repeats(s, word, pos) ==
    LET j == Skip(s, pos, Space)
        e == MatchLit(s, j, [k \in 1..Len(word) |-> Lower(word[k])])
    IN  IF j > pos /\ e # 0 /\ WordBoundary(s, e) THEN Repeats(s, word, e) ELSE pos

\* the pattern without re.I: the repetitions must match the word's case
RECURSIVE RepeatsExact(_, _, _)
RepeatsExact(s, word, pos) ==
    LET j == Skip(s, pos, Space)
        e == j + Len(word)
    IN  IF j > pos /\ e - 1 <= Len(s) /\ Slice(s, j, e) = word /\ WordBoundary(s, e)
        THEN RepeatsExact(s, word, e) ELSE pos
RepeatedWordCaseSensitive(s, i) ==
    IF WordBoundary(s, i) /\ IsWord(s[i])
    THEN LET wE == Skip(s, i, WordChars)
             e == RepeatsExact(s, Slice(s, i, wE), wE)
         IN  IF e > wE THEN e ELSE 0
    ELSE 0

\* \b(\w+)(?:\s+\1\b)+ with re.I
RepeatedWord(s, i) ==
    IF WordBoundary(s, i) /\ IsWord(s[i])
    THEN LET wE == Skip(s, i, WordChars)
             e == Repeats(s, Slice(s, i, wE), wE)
         IN  IF e > wE THEN e ELSE 0
    ELSE 0
\* r"\1"
FirstWord(s, i, e) == Slice(s, i, Skip(s, i, WordChars))

\* re.sub(r"\b(\w+)(?:\s+\1\b)+", r"\1", t, flags=re.I)   (lines 129 and 138)
CollapseRepeats(s) == ReSub(s, RepeatedWord, FirstWord, 0)

FallbackTitle == <<"D", "o", "o", "r", "m", "a", "t", ",", " ", "L", "o", "w", "-", "P", "r", "o", "f",
        "i", "l", "e", ",", " ", "A", "n", "t", "i", "-", "S", "l", "i", "p">>

\* "not t" of Python for an Optional[str]
Falsy(t) == t = None \/ t = <<>>

\* _clean_title with "if t is None" for "if not t"
_clean_title_none_only(t) ==
    IF t = None THEN FallbackTitle
    ELSE _sentenceize(CollapseRepeats(_strip_controls(_normalize_delims(t))))

_clean_title(t) ==
    IF Falsy(t) THEN FallbackTitle
    ELSE _sentenceize(CollapseRepeats(_strip_controls(_normalize_delims(t))))

\* \s*[★☆]+
Stars(s, i) ==
    LET j == Skip(s, i, Space)
        e == Skip(s, j, {"U+2605", "U+2606"})
    IN  IF e > j THEN e ELSE 0
\* \s*,\s*\.
CommaPeriod(s, i) ==
    LET j == Skip(s, i, Space)
        k == IF j <= Len(s) /\ s[j] = "," THEN Skip(s, j + 1, Space) ELSE 0
    IN  IF k # 0 /\ k <= Len(s) /\ s[k] = "." THEN k + 1 ELSE 0
ToPeriod(s, i, e) == <<".">>
\* \s*,\s*,
CommaComma(s, i) ==
    LET j == Skip(s, i, Space)
        k == IF j <= Len(s) /\ s[j] = "," THEN Skip(s, j + 1, Space) ELSE 0
    IN  IF k # 0 /\ k <= Len(s) /\ s[k] = "," THEN k + 1 ELSE 0

\* lines 138-141
Tidy(s0) ==
    LET s1 == CollapseRepeats(s0)
        s2 == ReSub(s1, Stars, ToSpace, 0)
        s3 == ReSub(s2, CommaPeriod, ToPeriod, 0)
    IN  ReSub(s3, CommaComma, ToCommaSpace, 0)

\* \s*(?:[^\w\s]|_){2,}\s*$   (line 150)
NotPunct == Space \cup LowerSet \cup UpperSet \cup Digit
TrailingPunct(s, i) ==
    LET j == Skip(s, i, Space)
        k == SkipTo(s, j, NotPunct)
        e == Skip(s, k, Space)
    IN  IF k >= j + 2 /\ e = Len(s) + 1 THEN e ELSE 0

\* lines 156-157: the bullets appended to the description
AppendBullets(clean_desc, features) ==
    IF features # <<>>
    THEN RStrip(clean_desc, {"."}) \o <<".", " ">>
         \o JoinSpace([t \in 1..Len(features) |-> <<BULLET, " ">> \o features[t] \o <<".">>])
    ELSE clean_desc

\* "x" for "x or None"
KeepEmpty(x) == x
\* "x or None"
OrNone(x) == IF x = <<>> THEN None ELSE x
\* "x or ''"
OrEmpty(x) == IF Falsy(x) THEN <<>> ELSE x

(***************************************************************************)
(* _normalize_id (main.py 70-87).                                          *)
(***************************************************************************)
\* chr(n) for n < 128: the C0 controls, the printable characters (the grave
\* accent written "U+0060"), DEL
C0 ==
    <<"U+0000", "U+0001", "U+0002", "U+0003", "U+0004", "U+0005", "U+0006", "U+0007",
      "U+0008", "U+0009", "U+000A", "U+000B", "U+000C", "U+000D", "U+000E", "U+000F",
      "U+0010", "U+0011", "U+0012", "U+0013", "U+0014", "U+0015", "U+0016", "U+0017",
      "U+0018", "U+0019", "U+001A", "U+001B", "U+001C", "U+001D", "U+001E", "U+001F">>
DEL == "U+007F"
Printable ==
    <<" ", "!", "\"", "#", "$", "%", "&", "'", "(", ")", "*", "+", ",", "-", ".", "/", "0", "1",
      "2", "3", "4", "5", "6", "7", "8", "9", ":", ";", "<", "=", ">", "?", "@", "A", "B", "C",
      "D", "E", "F", "G", "H", "I", "J", "K", "L", "M", "N", "O", "P", "Q", "R", "S", "T", "U",
      "V", "W", "X", "Y", "Z", "[", "\\", "]", "^", "_", "U+0060", "a", "b", "c", "d", "e", "f", "g",
      "h", "i", "j", "k", "l", "m", "n", "o", "p", "q", "r", "s", "t", "u", "v", "w", "x", "y",
      "z", "{", "|", "}", "~">>
Chr(n) == IF n < 32 THEN C0[n + 1] ELSE IF n < 127 THEN Printable[n - 31] ELSE DEL

\* _CTRL: the characters _CTRL_TABLE deletes
_CTRL == Range(C0) \cup {DEL}

\* urllib.parse.unquote: every %XX with two hex digits becomes its byte, the
\* bytes being decoded as UTF-8 with errors="replace" (the ids of the model
\* hold no two adjacent bytes >= 0x80, so such a byte is U+FFFD)
HexSeq == <<"0", "1", "2", "3", "4", "5", "6", "7", "8", "9", "a", "b", "c", "d", "e", "f">>
IsHex(c) == Lower(c) \in Range(HexSeq)
HexVal(c) == (CHOOSE k \in 1..16 : HexSeq[k] = Lower(c)) - 1
PercentByte(s, i) ==
    IF s[i] = "%" /\ i + 2 <= Len(s) /\ IsHex(s[i + 1]) /\ IsHex(s[i + 2]) THEN i + 3 ELSE 0
DecodeByte(s, i, e) ==
    IF HexVal(s[i + 1]) < 8 THEN <<Chr(16 * HexVal(s[i + 1]) + HexVal(s[i + 2]))>>
    ELSE <<"U+FFFD">>
unquote(s) == ReSub(s, PercentByte, DecodeByte, 0)

\* str.strip(chars)
StripChars(s, S) ==
    LET keep == {i \in 1..Len(s) : s[i] \notin S}
    IN  IF keep = {} THEN <<>>
        ELSE SubSeq(s, CHOOSE i \in keep : \A j \in keep : i <= j,
                       CHOOSE i \in keep : \A j \in keep : i >= j)

\* (?:%0A|%0D)+$ with re.IGNORECASE: the end of the run of encoded newlines
\* from i, which has to be the end of s (or the line feed that ends s)
RECURSIVE EncodedRun(_, _)
EncodedRun(s, i) ==
    IF MatchLit(s, i, <<"%", "0", "a">>) # 0 \/ MatchLit(s, i, <<"%", "0", "d">>) # 0
    THEN EncodedRun(s, i + 3) ELSE i
TrailingEncoded(s, i) ==
    IF EncodedRun(s, i) > i
       /\ (EncodedRun(s, i) = Len(s) + 1 \/ (EncodedRun(s, i) = Len(s) /\ s[Len(s)] = LF))
    THEN EncodedRun(s, i) ELSE 0

NotZeroWidth(c) == c \notin {"U+200B", "U+FEFF"}
NotCtrl(c) == c \notin _CTRL

_normalize_id(raw) ==
    IF raw = None THEN <<>>
    ELSE Strip(SelectSeq(SelectSeq(unquote(ReSub(
             StripChars(StripChars(Strip(raw), {"\""}), {"'"}),
             TrailingEncoded, ToNothing, 0)), NotZeroWidth), NotCtrl))


(***************************************************************************)
(* main.py, search: the pieces of the keyword filter.                      *)
(***************************************************************************)
\* str.lower
LowerText(txt) == [k \in 1..Len(txt) |-> Lower(txt[k])]
\* "needle in hay"
In(needle, hay) ==
    \E k \in 0..(Len(hay) - Len(needle)) : SubSeq(hay, k + 1, k + Len(needle)) = needle
\* the tokens of a text: its maximal runs of non-space characters
Tokens(txt) ==
    {SubSeq(txt, b[1], b[2]) :
        b \in {c \in (1..Len(txt)) \X (1..Len(txt)) :
                  /\ c[1] <= c[2]
                  /\ \A k \in c[1]..c[2] : ~IsSpace(txt[k])
                  /\ c[1] = 1 \/ IsSpace(txt[c[1] - 1])
                  /\ c[2] = Len(txt) \/ IsSpace(txt[c[2] + 1])}}
\* lines 57-65: the text of some token of the lowered query (which one is the
\* tagger's choice), or "" when no token qualifies
extract_keyword(q) == Tokens(LowerText(q)) \cup {<<>>}
(***************************************************************************)
(* Inputs.  An input is a concatenation of at most Max...Frags fragments   *)
(* of its family, or one of the listed texts.                              *)
(***************************************************************************)
MaxTitleFrags == 3
MaxDescFrags == 3
MaxCreativeFrags == 3
NCalls == 2

\* the concatenations of at most k fragments of F
RECURSIVE Texts(_, _)
Texts(F, k) ==
    IF k = 0 THEN {<<>>}
    ELSE LET shorter == Texts(F, k - 1)
         IN  shorter \cup {t \o f : t \in shorter, f \in F}

TitleFrags == {<<"R", "u", "g">>, <<"r", "u", "g">>, <<"R", "o", "o", "m">>, <<" ">>, <<",">>, <<"|">>,
        <<".">>, <<"-">>}
RugTitle == <<"R", "u", "g", " ", "R", "u", "g", " ", "f", "o", "r", " ", "L", "i", "v", "i", "n", "g",
        " ", "R", "o", "o", "m", " ", "R", "o", "o", "m">>
TitleTexts ==
    {None, RugTitle, <<"f", "o", "r", " ", "R", "U", "G", " ", "r", "u", "g", " ", "R", "u", "g">>,
            <<"L", "o", "w", "-", "P", "r", "o", "f", "i", "l", "e", " ", "L", "o", "w", "-", "P", "r",
            "o", "f", "i", "l", "e", " ", "m", "a", "t">>, <<TAB>>}
    \cup Texts(TitleFrags, MaxTitleFrags)

DimFrags == {<<"2", "4">>, <<"2", "4", "\"">>, <<"3", "6", "c", "m">>, <<" ", "x", " ">>, <<" ", "i", "n">>, <<"t", "h", "i", "c", "k", "n", "e", "s", "s", " ">>, <<"0", ".", "5">>, <<" ">>}
KeywordFrags == {<<"a", "n", "t", "i", "-", "s", "l", "i", "p">>, <<"n", "o", "n", " ", "s", "l", "i",
        "p">>, <<"p", "o", "l", "y", "e", "s", "t", "e", "r">>, <<"w", "a", "s", "h", "a", "b", "l",
        "e">>, <<"h", "a", "r", "d", "w", "o", "o", "d">>,
                 <<"w", "o", "o", "d", " ", "f", "l", "o", "o", "r">>, <<" ">>, <<",">>}
BoilerFrags == {<<"C", "o", "n", "t", "a", "c", "t", " ", "u", "s">>, <<" ", "p", "u", "r", "c", "h",
        "a", "s", "e">>, <<"0", " ", "r", "i", "s", "k", " ", "p", "u", "r", "c", "h", "a", "s", "e">>,
        <<"c", "u", "s", "t", "o", "m", "e", "r", " ", "s", "e", "r", "v", "i", "c", "e">>,
                <<"m", "a", "t">>, <<" ">>, <<",">>, <<".">>}
SizeText == <<"S", "i", "z", "e", " ", "2", "4", "\"", " ", "x", " ", "3", "6", "\"", " ", "(", "6",
        "0", "c", "m", " ", "x", " ", "9", "0", "c", "m", ")", ",", " ", "t", "h", "i", "c", "k", "n",
        "e", "s", "s", " ", "0", ".", "2", " ", "i", "n", "c", "h">>
FillerText == <<"C", "o", "n", "t", "a", "c", "t", " ", "u", "s", " ", "b", "e", "f", "o", "r", "e", " ", "l", "e", "a", "v", "i", "n", "g", " ", "n", "e", "g", "a", "t", "i", "v", "e", " ", "f", "e", "e", "d", "b", "a", "c", "k", ",", " ", "0", " ", "r", "i", "s", "k", " ", "p", "u", "r", "c", "h", "a", "s", "e", ",", " ", "c", "u", "s", "t", "o", "m", "e", "r", " ", "s", "e", "r", "v", "i", "c", "e">>
FillerSpecText ==
    <<"C", "o", "n", "t", "a", "c", "t", " ", "u", "s", " ", "b", "e", "f", "o", "r", "e", " ", "l",
            "e", "a", "v", "i", "n", "g", " ", "n", "e", "g", "a", "t", "i", "v", "e", " ", "f", "e",
            "e", "d", "b", "a", "c", "k", ",", " ", "0", " ", "r", "i", "s", "k", " ", "p", "u", "r",
            "c", "h", "a", "s", "e", ",", " ", "c", "u", "s", "t", "o", "m", "e", "r", " ", "s", "e",
            "r", "v", "i", "c", "e", " ", "g", "u", "a", "r", "a", "n", "t", "e", "e", "d">>
KeywordText ==
    <<"a", "n", "t", "i", "-", "s", "l", "i", "p", " ", "r", "u", "b", "b", "e", "r", " ", "b", "a",
            "c", "k", "i", "n", "g", ",", " ", "p", "o", "l", "y", "e", "s", "t", "e", "r", " ", "s",
            "u", "r", "f", "a", "c", "e", ",", " ", "m", "a", "c", "h", "i", "n", "e", " ", "w", "a",
            "s", "h", "a", "b", "l", "e", ",", " ", "s", "a", "f", "e", " ", "o", "n", " ", "h", "a",
            "r", "d", "w", "o", "o", "d", " ", "f", "l", "o", "o", "r", "s">>
DescTexts ==
    {SizeText, FillerText, FillerSpecText, KeywordText, <<"2", "4", " ", "x", " ", "3", "6">>, <<"S",
            "o", "f", "t", " ", "m", "a", "t", ".", ".">>,
     <<"6", "0", "c", "m", " ", "x", " ", "9", "0", "c", "m", ",", " ", "w", "a", "s", "h", "a", "b",
             "l", "e", ",", " ", "0", ".", "2", " ", "i", "n">>}
    \cup Texts(DimFrags, MaxDescFrags) \cup Texts(KeywordFrags, MaxDescFrags)
    \cup Texts(BoilerFrags, MaxDescFrags)

CreativeFrags == {<<"a">>, <<"&">>, <<"a", "m", "p", ";">>, <<" ">>, <<",">>, <<";">>, <<".">>, <<"-">>}
CreativeTexts ==
    {None, <<"&", "a", "m", "p", ";", "a", "m", "p", ";">>, <<",", " ", ",", " ", ",">>, <<TAB, LF>>,
            <<"S", "o", "f", "t", ".", " ", "W", "a", "r", "m", " ", "!", "!">>, <<"a", "U+2014",
            "U+2014">>}
    \cup Texts(CreativeFrags, MaxCreativeFrags)

\* the few values the other two inputs take while one input ranges over its texts
FewTitles == {None, <<"R", "u", "g", " ", "r", "u", "g">>}
FewDescs == {<<>>, <<"2", "4", " ", "x", " ", "3", "6", ",", " ", "w", "a", "s", "h", "a", "b", "l", "e">>}
FewCreatives == {None, <<"S", "o", "f", "t", " ", "&", " ", "w", "a", "r", "m", ".", ".">>}

(***************************************************************************)
(* normalize_listing (normalize.py 5-165), one call.                       *)
(***************************************************************************)
Result(t, d, c, f, dm) ==
    [title |-> t, description |-> d, creative |-> c, features |-> f, dimensions |-> dm]

\* lines 148-165, given the locals dims, clean_desc and features
Describe(title, raw_creative, dims, clean_desc, features) ==
    Result(_clean_title(title), AppendBullets(clean_desc, features),
           OrNone(_sentenceize(ReSub(_strip_controls(Strip(OrEmpty(raw_creative))),
                                     TrailingPunct, ToNothing, 0))),
           features, dims)
\* lines 138-165, nd being the pair line 137 assigns
Finish(title, raw_creative, nd) ==
    Describe(title, raw_creative, nd[2], _sentenceize(Tidy(nd[1])),
             _synthesize_bullets(_sentenceize(Tidy(nd[1])), nd[2]))

\* what one call returns
normalize_listing(title, raw_description, raw_creative) ==
    Finish(title, raw_creative, _normalize_dimensions(_strip_controls(_normalize_delims(
        _drop_boiler(OrEmpty(raw_description))))))

(***************************************************************************)
(* The calls in flight.  Every name of the body is a local of its call.    *)
(***************************************************************************)
VARIABLES title, raw_description, raw_creative, pc, s, dims, clean_desc, features, creative,
          nice_title, result
\* the service around it (main.py): the products table, and the frames of the
\* get_item request and of the search request in flight
VARIABLES db, get_item, search

inputs == <<title, raw_description, raw_creative>>
vars == <<title, raw_description, raw_creative, pc, s, dims, clean_desc, features, creative,
          nice_title, result>>

service == <<db, get_item, search>>
Calls == DOMAIN pc
NoResult == <<>>
\* the frame of an endpoint that serves no request
NoRequest == [pc |-> "idle"]
\* no request in flight
Idle == db = {} /\ get_item = NoRequest /\ search = NoRequest

\* the frames of calls that have not run yet
Frames(calls, t, d, c) ==
    /\ title = t
    /\ raw_description = d
    /\ raw_creative = c
    /\ pc = [k \in calls |-> "drop_boiler"]
    /\ s = [k \in calls |-> <<>>]
    /\ dims = [k \in calls |-> NoDims]
    /\ clean_desc = [k \in calls |-> <<>>]
    /\ features = [k \in calls |-> <<>>]
    /\ creative = [k \in calls |-> <<>>]
    /\ nice_title = [k \in calls |-> <<>>]
    /\ result = [k \in calls |-> NoResult]

\* calls that have not run yet, outside any request
Start(calls, t, d, c) == Frames(calls, t, d, c) /\ Idle

\* a name shared by the calls: every call reads the frame of the first call
Shared(x, c) == x[CHOOSE k \in DOMAIN x : \A m \in DOMAIN x : k <= m]
\* the local x of call c, and the frames with the local x of call c set to v
Local(x, c) == x[c]
Set(x, c, v) == [x EXCEPT ![c] = v]

\* lines 133-134
DropBoiler(c) ==
    /\ pc[c] = "drop_boiler"
    /\ s' = Set(s, c, _drop_boiler(OrEmpty(Local(raw_description, c))))
    /\ pc' = Set(pc, c, "normalize_delims")
    /\ UNCHANGED <<inputs, dims, clean_desc, features, creative, nice_title, result>>

\* line 135
NormalizeDelims(c) ==
    /\ pc[c] = "normalize_delims"
    /\ s' = Set(s, c, _normalize_delims(Local(s, c)))
    /\ pc' = Set(pc, c, "strip_controls")
    /\ UNCHANGED <<inputs, dims, clean_desc, features, creative, nice_title, result>>

\* line 136
StripControls(c) ==
    /\ pc[c] = "strip_controls"
    /\ s' = Set(s, c, _strip_controls(Local(s, c)))
    /\ pc' = Set(pc, c, "normalize_dimensions")
    /\ UNCHANGED <<inputs, dims, clean_desc, features, creative, nice_title, result>>

\* line 137
NormalizeDimensions(c) ==
    /\ pc[c] = "normalize_dimensions"
    /\ \E r \in {_normalize_dimensions(Local(s, c))} :
           s' = Set(s, c, r[1]) /\ dims' = Set(dims, c, r[2])
    /\ pc' = Set(pc, c, "tidy")
    /\ UNCHANGED <<inputs, clean_desc, features, creative, nice_title, result>>

\* lines 138-141
TidyText(c) ==
    /\ pc[c] = "tidy"
    /\ s' = Set(s, c, Tidy(Local(s, c)))
    /\ pc' = Set(pc, c, "sentenceize")
    /\ UNCHANGED <<inputs, dims, clean_desc, features, creative, nice_title, result>>

\* line 142
Sentenceize(c) ==
    /\ pc[c] = "sentenceize"
    /\ clean_desc' = Set(clean_desc, c, _sentenceize(Local(s, c)))
    /\ pc' = Set(pc, c, "features")
    /\ UNCHANGED <<inputs, s, dims, features, creative, nice_title, result>>

\* line 145
SynthesizeBullets(c) ==
    /\ pc[c] = "features"
    /\ features' = Set(features, c, _synthesize_bullets(Local(clean_desc, c), Local(dims, c)))
    /\ pc' = Set(pc, c, "creative_strip")
    /\ UNCHANGED <<inputs, s, dims, clean_desc, creative, nice_title, result>>

\* line 148
CreativeStrip(c) ==
    /\ pc[c] = "creative_strip"
    /\ creative' = Set(creative, c, Strip(OrEmpty(Local(raw_creative, c))))
    /\ pc' = Set(pc, c, "creative_scrub")
    /\ UNCHANGED <<inputs, s, dims, clean_desc, features, nice_title, result>>

\* line 149
CreativeScrub(c) ==
    /\ pc[c] = "creative_scrub"
    /\ creative' = Set(creative, c, _strip_controls(Local(creative, c)))
    /\ pc' = Set(pc, c, "creative_trim")
    /\ UNCHANGED <<inputs, s, dims, clean_desc, features, nice_title, result>>

\* line 150
CreativeTrim(c) ==
    /\ pc[c] = "creative_trim"
    /\ creative' = Set(creative, c, ReSub(Local(creative, c), TrailingPunct, ToNothing, 0))
    /\ pc' = Set(pc, c, "creative_sentence")
    /\ UNCHANGED <<inputs, s, dims, clean_desc, features, nice_title, result>>

\* line 151
CreativeSentence(c) ==
    /\ pc[c] = "creative_sentence"
    /\ creative' = Set(creative, c, _sentenceize(Local(creative, c)))
    /\ pc' = Set(pc, c, "title")
    /\ UNCHANGED <<inputs, s, dims, clean_desc, features, nice_title, result>>

\* line 154
CleanTitle(c) ==
    /\ pc[c] = "title"
    /\ nice_title' = Set(nice_title, c, _clean_title(Local(title, c)))
    /\ pc' = Set(pc, c, "append")
    /\ UNCHANGED <<inputs, s, dims, clean_desc, features, creative, result>>

\* lines 156-157
AppendFeatures(c) ==
    /\ pc[c] = "append"
    /\ clean_desc' = Set(clean_desc, c, AppendBullets(Local(clean_desc, c), Local(features, c)))
    /\ pc' = Set(pc, c, "return")
    /\ UNCHANGED <<inputs, s, dims, features, creative, nice_title, result>>

\* lines 159-165
Return(c) ==
    /\ pc[c] = "return"
    /\ result' = Set(result, c, Result(Local(nice_title, c), Local(clean_desc, c),
                                       OrNone(Local(creative, c)), Local(features, c),
                                       Local(dims, c)))
    /\ pc' = Set(pc, c, "done")
    /\ UNCHANGED <<inputs, s, dims, clean_desc, features, creative, nice_title>>

Next ==
    \E c \in Calls :
        /\ UNCHANGED service
        /\ \/ DropBoiler(c)
           \/ NormalizeDelims(c)
           \/ StripControls(c)
           \/ NormalizeDimensions(c)
           \/ TidyText(c)
           \/ Sentenceize(c)
           \/ SynthesizeBullets(c)
           \/ CreativeStrip(c)
           \/ CreativeScrub(c)
           \/ CreativeTrim(c)
           \/ CreativeSentence(c)
           \/ CleanTitle(c)
           \/ AppendFeatures(c)
           \/ Return(c)

\* one call, the title ranging over the title texts
InitTitle ==
    \E t \in TitleTexts, d \in FewDescs, c \in FewCreatives :
        Start({1}, [k \in {1} |-> t], [k \in {1} |-> d], [k \in {1} |-> c])
SpecTitle == InitTitle /\ [][Next]_vars

\* one call, the description ranging over the description texts
InitDesc ==
    \E t \in FewTitles, d \in DescTexts, c \in FewCreatives :
        Start({1}, [k \in {1} |-> t], [k \in {1} |-> d], [k \in {1} |-> c])
SpecDesc == InitDesc /\ [][Next]_vars

\* one call, the creative text ranging over the creative texts
InitCreative ==
    \E t \in FewTitles, d \in FewDescs, c \in CreativeTexts :
        Start({1}, [k \in {1} |-> t], [k \in {1} |-> d], [k \in {1} |-> c])
SpecCreative == InitCreative /\ [][Next]_vars

\* NCalls calls running concurrently, each with one of the input triples
CallInputs ==
    {<<None, <<"2", "4", "\"", " ", "x", " ", "3", "6", "\"", ",", " ", "0", ".", "2", " ", "i", "n",
            "c", "h">>, None>>,
     <<<<"R", "u", "g", " ", "r", "u", "g">>, <<"2", "4", " ", "x", " ", "3", "6", ",", " ", "w", "a",
             "s", "h", "a", "b", "l", "e">>, <<"S", "o", "f", "t", " ", "&", " ", "w", "a", "r", "m",
             ".", ".">>>>,
     <<<<" ">>, <<"C", "o", "n", "t", "a", "c", "t", " ", "u", "s", ",", " ", "0", " ", "r", "i", "s",
             "k", " ", "p", "u", "r", "c", "h", "a", "s", "e">>, <<"&", "a", "m", "p", ";", "a", "m",
             "p", ";">>>>}
InitCalls ==
    \E i \in [1..NCalls -> CallInputs] :
        Start(1..NCalls, [k \in 1..NCalls |-> i[k][1]], [k \in 1..NCalls |-> i[k][2]],
              [k \in 1..NCalls |-> i[k][3]])
SpecCalls == InitCalls /\ [][Next]_vars

\* one call, the description ranging over texts that end in periods and give
\* features
AppendFrags == {<<"w", "a", "s", "h", "a", "b", "l", "e">>, <<"m", "a", "t">>, <<".">>, <<" ">>, <<"2",
        "4", " ", "x", " ", "3", "6">>}
InitAppend ==
    \E t \in FewTitles, d \in Texts(AppendFrags, MaxDescFrags), c \in FewCreatives :
        Start({1}, [k \in {1} |-> t], [k \in {1} |-> d], [k \in {1} |-> c])
SpecAppend == InitAppend /\ [][Next]_vars

Init == InitTitle \/ InitDesc \/ InitCreative
Spec == Init /\ [][Next]_vars

(***************************************************************************)
(* get_item (main.py 131-176): one request.                                *)
(***************************************************************************)
MaxIdFrags == 3

\* the rows of the products table (models.py), the columns get_item reads
Product(i, t, d) == [id |-> i, title |-> t, description |-> d]
\* scalar_one_or_none() of a lookup that finds no row
NoProduct == Product(None, None, None)
RugRow == Product(<<"a">>, <<"R", "u", "g", " ", "r", "u", "g">>, <<"2", "4", " ", "x", " ", "3", "6",
        ",", " ", "w", "a", "s", "h", "a", "b", "l", "e">>)
BareRow == Product(<<"a", " ", "a">>, None, None)
Tables == {{}, {RugRow}, {RugRow, BareRow}}

\* the raw ids of the requests
IdFrags == {<<"a">>, <<"%", "2", "5">>, <<"6", "1">>, <<" ">>, <<"\"">>, <<"%", "0", "A">>}
IdTexts == Texts(IdFrags, MaxIdFrags)

\* what description_chain.invoke returns when it returns
Completions == {<<>>, <<" ", "S", "o", "f", "t", " ", "&", " ", "w", "a", "r", "m", ".", ".", " ">>,
        <<"C", "o", "z", "y">>}
\* line 149
DefaultBlurb ==
    <<"A", " ", "s", "t", "y", "l", "i", "s", "h", ",", " ", "f", "u", "n", "c", "t", "i", "o", "n",
      "a", "l", " ", "p", "i", "e", "c", "e", " ", "U+2014", " ", "b", "u", "i", "l", "t", " ", "f",
      "o", "r", " ", "e", "v", "e", "r", "y", "d", "a", "y", " ", "c", "o", "m", "f", "o", "r", "t", ".">>

\* db.execute(select(Product).where(Product.id == x)).scalar_one_or_none()
Lookup(x) == IF \E p \in db : p.id = x THEN CHOOSE p \in db : p.id = x ELSE NoProduct

NoResponse == [status |-> 0]
\* the frame of a request for the raw id i that has not run yet
Request(i) ==
    [pc |-> "lookup", id |-> i, clean_id |-> <<>>, alt_id |-> <<>>, prod |-> NoProduct,
     title_for_llm |-> <<>>, creative |-> <<>>, completion |-> "none", output |-> <<>>,
     invoked |-> 0,
     normalized |-> <<>>, norm |-> NoResult, response |-> NoResponse]

\* lines 133-137
LookupClean ==
    /\ get_item.pc = "lookup"
    /\ get_item' = [get_item EXCEPT !.clean_id = _normalize_id(get_item.id),
                                    !.prod = Lookup(_normalize_id(get_item.id)),
                                    !.pc = "fallback"]
    /\ UNCHANGED <<vars, db, search>>

\* lines 138-141
LookupAlt ==
    /\ get_item.pc = "fallback"
    /\ \E alt \in {_normalize_id(unquote(Strip(get_item.id)))} :
           get_item' =
               IF get_item.prod # NoProduct THEN [get_item EXCEPT !.pc = "found"]
               ELSE IF alt # <<>> /\ alt # get_item.clean_id
                    THEN [get_item EXCEPT !.alt_id = alt, !.prod = Lookup(alt), !.pc = "found"]
                    ELSE [get_item EXCEPT !.alt_id = alt, !.pc = "found"]
    /\ UNCHANGED <<vars, db, search>>

\* lines 143-145: HTTPException(status_code=404)
NotFound ==
    /\ get_item.pc = "found"
    /\ get_item.prod = NoProduct
    /\ get_item' = [get_item EXCEPT !.response = [status |-> 404], !.pc = "done"]
    /\ UNCHANGED <<vars, db, search>>

\* line 148
TitleForLlm(p) == IF Falsy(p.title) THEN <<"t", "h", "i", "s", " ", "i", "t", "e", "m">> ELSE p.title

\* lines 143, 148-152: description_chain.invoke returns
Complete ==
    /\ get_item.pc = "found"
    /\ get_item.prod # NoProduct
    /\ \E text \in Completions :
           get_item' = [get_item EXCEPT !.title_for_llm = TitleForLlm(get_item.prod),
                                        !.creative = Strip(text),
                                        !.completion = "returned",
                                        !.output = text,
                                        !.invoked = @ + 1,
                                        !.pc = "normalize"]
    /\ UNCHANGED <<vars, db, search>>

\* lines 143, 148-152 without the try: description_chain.invoke raises and
\* the exception leaves get_item
CompleteFailsPropagates ==
    /\ get_item.pc = "found"
    /\ get_item.prod # NoProduct
    /\ get_item' = [get_item EXCEPT !.title_for_llm = TitleForLlm(get_item.prod),
                                    !.completion = "raised",
                                    !.invoked = @ + 1,
                                    !.response = [status |-> 500],
                                    !.pc = "done"]
    /\ UNCHANGED <<vars, db, search>>

\* lines 143, 148-154: description_chain.invoke raises, "except Exception"
\* logs it and the request goes on with the creative of line 149
CompleteFails ==
    /\ get_item.pc = "found"
    /\ get_item.prod # NoProduct
    /\ get_item' = [get_item EXCEPT !.title_for_llm = TitleForLlm(get_item.prod),
                                    !.creative = DefaultBlurb,
                                    !.completion = "raised",
                                    !.invoked = @ + 1,
                                    !.pc = "normalize"]
    /\ UNCHANGED <<vars, db, search>>

\* lines 157-161: the call of normalize_listing, its arguments recorded
Normalize ==
    /\ get_item.pc = "normalize"
    /\ get_item' =
           [get_item EXCEPT
               !.norm = normalize_listing(get_item.prod.title, OrEmpty(get_item.prod.description),
                                          get_item.creative),
               !.normalized = Append(@, [title |-> get_item.prod.title,
                                         raw_description |-> OrEmpty(get_item.prod.description),
                                         raw_creative |-> get_item.creative]),
               !.pc = "respond"]
    /\ UNCHANGED <<vars, db, search>>

\* "x or y" of Python for Optional[str]
Or(x, y) == IF Falsy(x) THEN y ELSE x

\* lines 163-176: ProductDetail (schemas.py 12-24) requires title and
\* creative_description to be str; a None fails its validation
Respond ==
    /\ get_item.pc = "respond"
    /\ \E t \in {Or(get_item.norm.title, get_item.prod.title)},
          cd \in {OrNone(OrEmpty(get_item.norm.creative))} :
           get_item' =
               [get_item EXCEPT
                   !.response =
                       IF t = None \/ cd = None THEN [status |-> 500]
                       ELSE [status |-> 200, id |-> get_item.prod.id, title |-> t,
                             description |-> OrNone(get_item.norm.description),
                             creative_description |-> cd],
                   !.pc = "done"]
    /\ UNCHANGED <<vars, db, search>>

ItemNext ==
    \/ LookupClean
    \/ LookupAlt
    \/ NotFound
    \/ Complete
    \/ CompleteFails
    \/ Normalize
    \/ Respond

\* one request, over the tables and the raw ids; no call of normalize_listing
\* other than the request's own
InitItem ==
    /\ Frames({}, <<>>, <<>>, <<>>)
    /\ db \in Tables
    /\ \E i \in IdTexts : get_item = Request(i)
    /\ search = NoRequest
SpecItem == InitItem /\ [][ItemNext]_<<vars, service>>


(***************************************************************************)
(* main.py, search (lines 99-126): one request.                            *)
(***************************************************************************)
MaxTopK == 2
MaxCandidates == 3

\* schemas.py 26-30: the requests; top_k is any int, negative and 0 included
Queries == {<<>>, <<"r", "u", "g">>, <<"B", "i", "g", " ", "m", "a", "t">>}
MustContain == {None, <<>>, <<"R", "U", "G">>}
TopKs == {-1} \cup 0..MaxTopK
SearchRequests ==
    [query : Queries, top_k : TopKs, candidate_k : 1..MaxCandidates, must_contain : MustContain]

\* what the vector search answers: ordered matches {id, score, metadata}
Match(i, sc, md) == [id |-> i, score |-> sc, metadata |-> md]
RugMatch == Match(<<"a">>, 3, [title |-> <<" ", "W", "a", "s", "h", "a", "b", "l", "e", " ", "R", "u",
        "g", " ">>])
MatMatch == Match(<<"b">>, 2, [title |-> <<"B", "i", "g", " ", "M", "A", "T">>])
\* a match without metadata, or whose metadata has no title: lines 109-110 read
\* None for its title
BareMatch == Match(<<"c">>, 1, [title |-> None])
Matches == {RugMatch, MatMatch, BareMatch}
RECURSIVE MatchLists(_)
MatchLists(k) ==
    IF k = 0 THEN {<<>>}
    ELSE MatchLists(k - 1) \cup {Append(ms, m) : ms \in MatchLists(k - 1), m \in Matches}

\* the frame of a search request that has not run yet
SearchFrame(r) ==
    [pc |-> "query", req |-> r, matches |-> <<>>, key |-> None, cards |-> <<>>, i |-> 1,
     response |-> NoResponse]

\* lines 101-103: the index answers at most candidate_k matches
QueryIndex ==
    /\ search.pc = "query"
    /\ \E ms \in MatchLists(search.req.candidate_k) :
           search' = [search EXCEPT !.matches = ms, !.pc = "key"]
    /\ UNCHANGED <<vars, db, get_item>>

\* line 105
Key ==
    /\ search.pc = "key"
    /\ IF search.req.query # <<>>
       THEN \E kw \in (IF Falsy(search.req.must_contain)
                       THEN extract_keyword(search.req.query)
                       ELSE {search.req.must_contain}) :
                search' = [search EXCEPT !.key = LowerText(kw), !.cards = <<>>, !.i = 1,
                                         !.pc = "loop"]
       ELSE search' = [search EXCEPT !.key = None, !.cards = <<>>, !.i = 1, !.pc = "loop"]
    /\ UNCHANGED <<vars, db, get_item>>

\* lines 109-110
CardTitle(m) ==
    Strip(Or(m.metadata.title, <<"U", "n", "t", "i", "t", "l", "e", "d">>))
\* line 111
Filtered(k, m) == ~Falsy(k) /\ ~In(k, LowerText(CardTitle(m)))
\* lines 114-122; schemas.py 4-10
ProductCard(m) == [id |-> m.id, title |-> CardTitle(m), score |-> m.score]

\* lines 108-112: a match whose title lacks the key is passed over
Continue ==
    /\ search.pc = "loop"
    /\ search.i <= Len(search.matches)
    /\ Filtered(search.key, search.matches[search.i])
    /\ search' = [search EXCEPT !.i = @ + 1]
    /\ UNCHANGED <<vars, db, get_item>>

\* lines 108-124: the card is appended, then the length is tested
AppendCard ==
    /\ search.pc = "loop"
    /\ search.i <= Len(search.matches)
    /\ ~Filtered(search.key, search.matches[search.i])
    /\ search' = [search EXCEPT !.cards = Append(@, ProductCard(search.matches[search.i])),
                                !.i = @ + 1,
                                !.pc = IF Len(search.cards) + 1 >= search.req.top_k
                                       THEN "break" ELSE "loop"]
    /\ UNCHANGED <<vars, db, get_item>>

\* line 126, after the break or at the end of the matches
ReturnCards ==
    /\ \/ search.pc = "break"
       \/ search.pc = "loop" /\ search.i > Len(search.matches)
    /\ search' = [search EXCEPT !.response = [status |-> 200, results |-> search.cards],
                                !.pc = "done"]
    /\ UNCHANGED <<vars, db, get_item>>

SearchNext ==
    \/ QueryIndex
    \/ Key
    \/ Continue
    \/ AppendCard
    \/ ReturnCards

InitSearch ==
    /\ Frames({}, <<>>, <<>>, <<>>)
    /\ db = {}
    /\ get_item = NoRequest
    /\ \E r \in SearchRequests : search = SearchFrame(r)
SpecSearch == InitSearch /\ [][SearchNext]_<<vars, service>>
(***************************************************************************)
(* Properties.                                                             *)
(***************************************************************************)
Done(c) == pc[c] = "done"
Includes(seq, x) == \E i \in DOMAIN seq : seq[i] = x
\* lit (lower case) occurs in text, ignoring case
Contains(text, lit) == \E i \in 1..Len(text) : MatchLit(text, i, lit) # 0

\* C1: for every title, description and creative text, the returned title is
\* a non-empty string.
C1_TitleNonEmpty == \A c \in Calls : Done(c) => result[c].title # <<>>

\* C2: for the description SizeText the returned dimensions are exactly the
\* inch pair 24 x 36, the cm pair 60 x 90 and the thickness 0.2, and the
\* features include the Size bullet and the Thickness bullet of these numbers.
C2_SizeExample ==
    \A c \in Calls :
        Done(c) /\ raw_description[c] = SizeText =>
            /\ result[c].dimensions =
                   [width_in |-> <<"2", "4">>, length_in |-> <<"3", "6">>, width_cm |-> <<"6", "0">>,
                    length_cm |-> <<"9", "0">>, thickness_in |-> <<"0", ".", "2">>]
            /\ Includes(result[c].features, <<"S", "i", "z", "e", ":", " ", "2", "4", "\"", " ", TIMES,
                   " ", "3", "6", "\"", " ", "(", "6", "0", " ", TIMES, " ", "9", "0", " ", "c", "m", ")">>)
            /\ Includes(result[c].features, <<"T", "h", "i", "c", "k", "n", "e", "s", "s", ":", " ", "0", ".", "2", "\"", " ", "(", "l", "o", "w", " ", "p", "r", "o", "f", "i", "l", "e", ")">>)

\* C3: for the descriptions FillerText and FillerSpecText (the three filler
\* phrases in order, comma-separated) the returned description contains none
\* of the three filler phrases, no "contact us ... purchase" span, no double
\* space and no orphan punctuation.
C3_FillerRemoved ==
    \A c \in Calls :
        Done(c) /\ raw_description[c] \in {FillerText, FillerSpecText} =>
            LET d == result[c].description
            IN  /\ ~Contains(d, <<"c", "o", "n", "t", "a", "c", "t", " ", "u", "s", " ", "b", "e", "f",
                    "o", "r", "e", " ", "l", "e", "a", "v", "i", "n", "g", " ", "n", "e", "g", "a", "t",
                    "i", "v", "e", " ", "f", "e", "e", "d", "b", "a", "c", "k">>)
                /\ ~Contains(d, <<"0", " ", "r", "i", "s", "k", " ", "p", "u", "r", "c", "h", "a", "s", "e">>)
                /\ ~Contains(d, <<"c", "u", "s", "t", "o", "m", "e", "r", " ", "s", "e", "r", "v", "i",
                        "c", "e">>)
                /\ ReSearch(d, DropContactUs) = 0
                /\ ~Contains(d, <<" ", " ">>)
                /\ ~Contains(d, <<",", " ", ",">>)
                /\ ~Contains(d, <<",", ".">>)

\* C4: the scrubber is idempotent: scrubbing a scrubbed text (the creative
\* text after line 149) changes nothing.
C4_ScrubIdempotent ==
    \A c \in Calls : pc[c] = "creative_trim" => _strip_controls(creative[c]) = creative[c]

\* the rule a bullet comes from: 1 Size .. 6 Floor Safety (0: none)
StartsWith(b, prefix) == Len(b) >= Len(prefix) /\ SubSeq(b, 1, Len(prefix)) = prefix
Rule(b) ==
    CASE StartsWith(b, <<"S", "i", "z", "e", ":", " ">>) -> 1
      [] StartsWith(b, <<"T", "h", "i", "c", "k", "n", "e", "s", "s", ":", " ">>) -> 2
      [] StartsWith(b, <<"B", "a", "c", "k", "i", "n", "g", ":", " ">>) -> 3
      [] StartsWith(b, <<"S", "u", "r", "f", "a", "c", "e", ":", " ">>) -> 4
      [] StartsWith(b, <<"C", "a", "r", "e", ":", " ">>) -> 5
      [] StartsWith(b, <<"F", "l", "o", "o", "r", " ", "S", "a", "f", "e", "t", "y", ":", " ">>) -> 6
      [] OTHER -> 0

\* C5: the returned features hold no string twice and are in the rule order
\* Size, Thickness, Backing, Surface, Care, Floor Safety; for the description
\* KeywordText they are the four keyword bullets, once each, in that order.
C5_FeaturesOrdered ==
    \A c \in Calls :
        Done(c) =>
            LET f == result[c].features
            IN  /\ \A i, j \in DOMAIN f : i < j => f[i] # f[j]
                /\ \A i \in DOMAIN f : Rule(f[i]) \in 1..6
                /\ \A i, j \in DOMAIN f : i < j => Rule(f[i]) < Rule(f[j])
                /\ raw_description[c] = KeywordText =>
                       f = <<BackingBullet, SurfaceBullet, CareBullet, FloorBullet>>
C5_Witness ==
    \E c \in Calls :
        /\ Done(c)
        /\ raw_description[c] = KeywordText
        /\ Len(result[c].features) = 4

\* the creative text after scrubbing and trailing-punctuation stripping
\* (lines 148-150)
Trimmed(rc) == ReSub(_strip_controls(Strip(OrEmpty(rc))), TrailingPunct, ToNothing, 0)
OnlyCommas(text) == \A i \in 1..Len(text) : text[i] \in {",", ";"}

\* C6 as stated: the returned creative is never the empty string; it is None
\* when raw_creative is None, empty, whitespace-only or reduces to nothing
\* after scrubbing and trailing-punctuation stripping, and a non-empty string
\* otherwise.
C6_AsStated ==
    \A c \in Calls :
        Done(c) =>
            /\ result[c].creative # <<>>
            /\ (result[c].creative = None) <=> (Trimmed(raw_creative[c]) = <<>>)

\* C6, amended: the returned creative is never the empty string; it is None
\* exactly when the text is None, empty, whitespace-only or, after scrubbing
\* and trailing-punctuation stripping, holds nothing but commas and
\* semicolons (which the sentence building strips), and a non-empty string
\* otherwise.
C6_CreativeNeverEmpty ==
    \A c \in Calls :
        Done(c) =>
            /\ result[c].creative # <<>>
            /\ (result[c].creative = None) <=> OnlyCommas(Trimmed(raw_creative[c]))
            /\ Falsy(raw_creative[c]) \/ Strip(raw_creative[c]) = <<>> => result[c].creative = None
C6_Witness ==
    \E c \in Calls :
        /\ Done(c)
        /\ raw_creative[c] = <<" ", ",">>
        /\ result[c].creative = None
        /\ Trimmed(raw_creative[c]) # <<>>

\* C7: a title that is None or empty returns the fallback title as it is,
\* whatever the description and the creative text are.
C7_FallbackTitle ==
    \A c \in Calls : Done(c) /\ Falsy(title[c]) => result[c].title = FallbackTitle
C7_Witness ==
    \E c \in Calls :
        /\ Done(c)
        /\ title[c] = <<>>
        /\ raw_description[c] # <<>>
        /\ raw_creative[c] # None
        /\ result[c].title = FallbackTitle

\* the words of a text: i starts a word, and the word that starts at i
WordStart(text, i) == IsWord(text[i]) /\ (i = 1 \/ ~IsWord(text[i - 1]))
WordFrom(text, i) == Slice(text, i, Skip(text, i, WordChars))
SameWord(v, w) == Len(v) = Len(w) /\ \A k \in 1..Len(v) : Lower(v[k]) = Lower(w[k])
\* the word that starts at j repeats the word that starts at i: only
\* whitespace lies between them and they are equal ignoring case
RepeatsWord(text, i, j) ==
    LET e == Skip(text, i, WordChars)
    IN  /\ WordStart(text, i) /\ WordStart(text, j)
        /\ e < j
        /\ \A k \in e..(j - 1) : IsSpace(text[k])
        /\ SameWord(WordFrom(text, i), WordFrom(text, j))
NoRepeatedWord(text) == \A i, j \in 1..Len(text) : ~RepeatsWord(text, i, j)
\* text without every word that repeats the word before it, and without the
\* whitespace before such a word
KeepFirst(text) ==
    LET dropped == {k \in 1..Len(text) :
                       \E i, j \in 1..Len(text) :
                           /\ RepeatsWord(text, i, j)
                           /\ Skip(text, i, WordChars) <= k
                           /\ k < Skip(text, j, WordChars)}
        kept == {k \in 1..Len(text) : k \notin dropped}
    IN  [t \in 1..Cardinality(kept) |->
            text[CHOOSE k \in kept : Cardinality({m \in kept : m <= k}) = t]]

\* C8: in the returned title no word repeats the word before it (ignoring
\* case, only whitespace between them), of a run of repeats the first word is
\* the one kept, and RugTitle becomes "Rug for Living Room".
C8_RepeatsCollapsed ==
    \A c \in Calls :
        Done(c) /\ ~Falsy(title[c]) =>
            /\ NoRepeatedWord(result[c].title)
            /\ result[c].title =
                   _sentenceize(KeepFirst(_strip_controls(_normalize_delims(title[c]))))
            /\ title[c] = RugTitle => result[c].title = <<"R", "u", "g", " ", "f", "o", "r", " ", "L",
                    "i", "v", "i", "n", "g", " ", "R", "o", "o", "m">>
            /\ title[c] = <<"f", "o", "r", " ", "R", "U", "G", " ", "r", "u", "g", " ", "R", "u", "g">>
                    => result[c].title = <<"F", "o", "r", " ", "R", "U", "G">>
C8_Witness ==
    \E c \in Calls :
        /\ Done(c)
        /\ title[c] = RugTitle
        /\ result[c].title = <<"R", "u", "g", " ", "f", "o", "r", " ", "L", "i", "v", "i", "n", "g", " ", "R", "o", "o", "m">>

\* C9: every call, whatever the other calls in flight do, returns what one
\* call alone returns for its three inputs.
C9_CallsIndependent ==
    \A c \in Calls :
        Done(c) => result[c] = normalize_listing(title[c], raw_description[c], raw_creative[c])
C9_Witness ==
    \E c, k \in Calls :
        /\ Done(c)
        /\ pc[k] \notin {"drop_boiler", "done"}
        /\ raw_description[k] # raw_description[c]
        /\ title[k] # title[c]
        /\ raw_creative[k] # raw_creative[c]

\* the three scans, each over the same text
SeparateScans(text) ==
    ScanInch(<<text, NoDims>>)[2] @@ ScanCm(<<text, NoDims>>)[2] @@ ScanThick(<<text, NoDims>>)[2]

\* C10: the dimensions line 137 records are those of the three patterns, each
\* scanned over the scrubbed text as it is before any rewrite.
C10_ScansIndependent ==
    [][\A c \in Calls :
           pc[c] = "normalize_dimensions" /\ pc'[c] = "tidy" => dims'[c] = SeparateScans(s[c])]_vars

\* d without one trailing period, and d followed by the bullets of f
StripOnePeriod(d) == IF d # <<>> /\ d[Len(d)] = "." THEN SubSeq(d, 1, Len(d) - 1) ELSE d
Bulleted(d, f) ==
    IF f = <<>> THEN d
    ELSE StripOnePeriod(d) \o <<".", " ">>
         \o JoinSpace([t \in 1..Len(f) |-> <<BULLET, " ">> \o f[t] \o <<".">>])

\* C11: line 145 synthesizes the features from the sentence-built description
\* while it holds no bullet, and lines 156-157 leave an empty-featured
\* description unchanged and otherwise strip exactly one trailing period from
\* it and append one bullet per feature, in order, space-joined.
C11_OnePeriodStripped ==
    [][\A c \in Calls :
           /\ pc[c] = "features" /\ pc'[c] = "creative_strip" =>
                  features'[c] = _synthesize_bullets(clean_desc[c], dims[c])
           /\ pc[c] = "append" /\ pc'[c] = "return" =>
                  clean_desc'[c] = Bulleted(clean_desc[c], features[c])]_vars

\* C12: in get_item, once the product is found, a failure of the completion
\* call never leaves the handler: normalize_listing is called exactly once,
\* with raw_creative the default blurb, and the request is answered; when the
\* completion returns, raw_creative is its stripped output; a request whose
\* normalized id and alternate id both miss is answered 404 with neither the
\* completion nor normalize_listing called.
C12_CompletionFailureCaught ==
    /\ get_item.pc \in {"respond", "done"} /\ get_item.completion = "raised" =>
           /\ get_item.invoked = 1
           /\ Len(get_item.normalized) = 1
           /\ get_item.normalized[1].raw_creative = DefaultBlurb
           /\ get_item.pc = "done" => get_item.response.status = 200
    /\ get_item.pc \in {"respond", "done"} /\ get_item.completion = "returned" =>
           /\ get_item.invoked = 1
           /\ Len(get_item.normalized) = 1
           /\ get_item.normalized[1].raw_creative = Strip(get_item.output)
    /\ get_item.pc # "idle"
       /\ Lookup(_normalize_id(get_item.id)) = NoProduct
       /\ Lookup(_normalize_id(unquote(Strip(get_item.id)))) = NoProduct =>
           /\ get_item.invoked = 0
           /\ get_item.normalized = <<>>
           /\ get_item.pc = "done" => get_item.response.status = 404
C12_Witness ==
    /\ get_item.pc = "done"
    /\ get_item.completion = "raised"
    /\ get_item.alt_id # <<>>
    /\ get_item.prod = RugRow
    /\ get_item.normalized = <<[title |-> RugRow.title, raw_description |-> RugRow.description,
                                raw_creative |-> DefaultBlurb]>>
    /\ get_item.response.status = 200


\* the cards are, in order, cards of some of the matches
RECURSIVE InMatchOrder(_, _, _, _)
InMatchOrder(cards, ci, ms, mi) ==
    IF ci > Len(cards) THEN TRUE
    ELSE IF mi > Len(ms) THEN FALSE
    ELSE IF cards[ci] = ProductCard(ms[mi]) THEN InMatchOrder(cards, ci + 1, ms, mi + 1)
    ELSE InMatchOrder(cards, ci, ms, mi + 1)
C13_OrderKept ==
    search.pc = "done" => InMatchOrder(search.response.results, 1, search.matches, 1)
C13_KeywordInTitles ==
    search.pc = "done" /\ ~Falsy(search.key) =>
        \A k \in 1..Len(search.response.results) :
            In(LowerText(search.key), LowerText(search.response.results[k].title))
\* C13: for every SearchRequest, top_k = 0 or negative included, search
\* returns at most top_k results (none when top_k is 0 or negative), in the
\* order of the vector-search matches,
\* and when a keyword is in force every returned card's title contains it
\* case-insensitively.
C13_AtMostTopK ==
    /\ search.pc = "done" =>
           Len(search.response.results) <= (IF search.req.top_k < 0 THEN 0 ELSE search.req.top_k)
    /\ C13_OrderKept
    /\ C13_KeywordInTitles
====
